---- MODULE Spec2Model ----
(***************************************************************************)
(* A model of ransomware_group_statistics.py: the fetch of a group's       *)
(* victim records, their aggregation by month (process_victims), the       *)
(* ranking and shaping of the aggregation (most_common, build_json_output, *)
(* print_monthly_summary, write_csv_output) and the control flow of main.  *)
(*                                                                         *)
(* Python values are modelled as follows.                                  *)
(*   None            <<"none">>                                            *)
(*   a str s         <<"str", s>>   (only where None is possible too)      *)
(*   a dict          a sequence of <<key, value>> pairs in insertion order *)
(*                   (Python dicts, Counters and defaultdicts iterate in   *)
(*                   insertion order)                                      *)
(*   a victim record a TLA+ record whose DOMAIN is the set of keys present *)
(***************************************************************************)
EXTENDS Integers, Sequences, FiniteSets, TLC

VARIABLES
    pc,             \* position of main: "fetch", "check", "aggregate", "render", "done"
    format,         \* args.format
    output,         \* args.output: None or a str
    response,       \* what requests.get will produce for this run
    victims,        \* the value get_victims_by_group returned
    idx,            \* number of records the loop of process_victims has consumed
    monthly_data,   \* the defaultdict built by process_victims
    output_json,    \* the dict returned by build_json_output (<<>> before)
    stdout,         \* everything printed, one tagged tuple per print call
    file,           \* the output file: [state, content]
    calls           \* history: the functions main has invoked, in order

vars == <<pc, format, output, response, victims, idx, monthly_data,
          output_json, stdout, file, calls>>

----------------------------------------------------------------------------
(* Bounds of the model. *)

\* longest record sequence of the general input family
MaxVictims == 3
\* most distinct sectors/countries of the ranking input family
MaxKeys == 11
\* most repeated records appended to the ranking input family
MaxExtra == 1

----------------------------------------------------------------------------
(* Python values. *)

None == <<"none">>

Str(s) == <<"str", s>>

\* bool(v) for v None or a str
Truthy(v) == v # None /\ v[2] # ""

\* dict.get(key): the value, or None when the key is absent
Get(d, key) == IF key \in DOMAIN d THEN d[key] ELSE None

\* mutant: d.get(key, default), which replaces a missing value only
OrDefaultMissingOnly(v, default) == IF v # None THEN v[2] ELSE default

\* (v or default), as a plain string
OrDefault(v, default) == IF Truthy(v) THEN v[2] ELSE default

----------------------------------------------------------------------------
(* Insertion-ordered dicts. *)

Keys(d) == {d[i][1] : i \in 1..Len(d)}

KeySeq(d) == [i \in 1..Len(d) |-> d[i][1]]

IndexOf(d, k) == CHOOSE i \in 1..Len(d) : d[i][1] = k

\* d[k] for a key that is present
Lookup(d, k) == d[IndexOf(d, k)][2]

\* d[k] = v: in place for a present key, appended for a new one
DictSet(d, k, v) ==
    IF k \in Keys(d)
    THEN [d EXCEPT ![IndexOf(d, k)] = <<k, v>>]
    ELSE Append(d, <<k, v>>)

\* Counter.__missing__: a read of an absent key is 0 and inserts nothing
CounterGet(c, k) == IF k \in Keys(c) THEN Lookup(c, k) ELSE 0

\* c[k] += 1 on a Counter
CounterIncr(c, k) == DictSet(c, k, CounterGet(c, k) + 1)

\* mutant: a new entry is started whenever k is not the key inserted last
\* (grouping of consecutive runs, which is right only for sorted input)
DefaultGetConsecutive(d, k, default) ==
    IF d # <<>> /\ d[Len(d)][1] = k THEN d
    ELSE Append(SelectSeq(d, LAMBDA e : e[1] # k), <<k, default>>)

\* defaultdict.__getitem__: the dict after the read; an absent key is
\* inserted with the default value
DefaultGet(d, k, default) ==
    IF k \in Keys(d) THEN d ELSE Append(d, <<k, default>>)

----------------------------------------------------------------------------
(* datetime.fromisoformat and strftime("%Y-%m").                            *)
(* The parser is modelled for the shapes YYYY-MM-DD, YYYY-MM-DD?HH:MM:SS   *)
(* and YYYY-MM-DD?HH:MM:SS.ffffff (? is any one separator character), with *)
(* the range checks of datetime; every other string raises ValueError.     *)

Char(s, i) == SubSeq(s, i, i)

Digits == {"0", "1", "2", "3", "4", "5", "6", "7", "8", "9"}

DigitVal(c) ==
    CASE c = "0" -> 0 [] c = "1" -> 1 [] c = "2" -> 2 [] c = "3" -> 3
      [] c = "4" -> 4 [] c = "5" -> 5 [] c = "6" -> 6 [] c = "7" -> 7
      [] c = "8" -> 8 [] c = "9" -> 9

AllDigits(s) == \A i \in 1..Len(s) : Char(s, i) \in Digits

RECURSIVE ToInt(_)
\* int(s) for a string of digits
ToInt(s) ==
    IF Len(s) = 0 THEN 0
    ELSE ToInt(SubSeq(s, 1, Len(s) - 1)) * 10 + DigitVal(Char(s, Len(s)))

IsLeap(y) == (y % 4 = 0 /\ y % 100 # 0) \/ y % 400 = 0

DaysInMonth(y, m) ==
    IF m = 2 THEN (IF IsLeap(y) THEN 29 ELSE 28)
    ELSE IF m \in {4, 6, 9, 11} THEN 30 ELSE 31

\* the date part: the fields are digits and in range
DateOk(s) ==
    /\ Char(s, 5) = "-" /\ Char(s, 8) = "-"
    /\ AllDigits(SubSeq(s, 1, 4)) /\ AllDigits(SubSeq(s, 6, 7))
    /\ AllDigits(SubSeq(s, 9, 10))
    /\ ToInt(SubSeq(s, 1, 4)) >= 1
    /\ ToInt(SubSeq(s, 6, 7)) \in 1..12
    /\ ToInt(SubSeq(s, 9, 10)) \in
           1..DaysInMonth(ToInt(SubSeq(s, 1, 4)), ToInt(SubSeq(s, 6, 7)))

\* the time part HH:MM:SS at positions 12..19
TimeOk(s) ==
    /\ Char(s, 14) = ":" /\ Char(s, 17) = ":"
    /\ AllDigits(SubSeq(s, 12, 13)) /\ AllDigits(SubSeq(s, 15, 16))
    /\ AllDigits(SubSeq(s, 18, 19))
    /\ ToInt(SubSeq(s, 12, 13)) \in 0..23
    /\ ToInt(SubSeq(s, 15, 16)) \in 0..59
    /\ ToInt(SubSeq(s, 18, 19)) \in 0..59

\* the fraction .ffffff at positions 20..26
FractionOk(s) == Char(s, 20) = "." /\ AllDigits(SubSeq(s, 21, 26))

\* datetime.fromisoformat(s): [ok |-> FALSE] stands for the exception
fromisoformat(s) ==
    IF /\ Len(s) \in {10, 19, 26}
       /\ DateOk(s)
       /\ Len(s) >= 19 => TimeOk(s)
       /\ Len(s) = 26 => FractionOk(s)
    THEN [ok |-> TRUE,
          year |-> ToInt(SubSeq(s, 1, 4)),
          month |-> ToInt(SubSeq(s, 6, 7)),
          day |-> ToInt(SubSeq(s, 9, 10))]
    ELSE [ok |-> FALSE]

RECURSIVE ZeroPad(_, _)
\* s left-padded with zeros to width w
ZeroPad(s, w) == IF Len(s) >= w THEN s ELSE ZeroPad("0" \o s, w)

\* dt.strftime("%Y-%m")
strftime(dt) == ZeroPad(ToString(dt.year), 4) \o "-" \o ZeroPad(ToString(dt.month), 2)

----------------------------------------------------------------------------
(* process_victims. *)

NotIdentified == "Not Identified"

\* the value the lambda of the defaultdict creates for a new month
NewMonth == [total |-> 0, sectors |-> <<>>, countries |-> <<>>,
             country_sectors |-> <<>>]

\* monthly_data[month_key]["total"] += 1
IncrTotal(md, month_key) ==
    LET md1 == DefaultGet(md, month_key, NewMonth)
    IN  DictSet(md1, month_key,
                [Lookup(md1, month_key) EXCEPT !.total = @ + 1])

\* monthly_data[month_key]["sectors"][sector] += 1
IncrSector(md, month_key, sector) ==
    LET md1 == DefaultGet(md, month_key, NewMonth)
    IN  DictSet(md1, month_key,
                [Lookup(md1, month_key) EXCEPT
                    !.sectors = CounterIncr(@, sector)])

\* mutant: the count is set, not incremented
IncrCountrySetOne(md, month_key, country) ==
    LET md1 == DefaultGet(md, month_key, NewMonth)
    IN  DictSet(md1, month_key,
                [Lookup(md1, month_key) EXCEPT
                    !.countries = DictSet(@, country, 1)])

\* monthly_data[month_key]["countries"][country] += 1
IncrCountry(md, month_key, country) ==
    LET md1 == DefaultGet(md, month_key, NewMonth)
    IN  DictSet(md1, month_key,
                [Lookup(md1, month_key) EXCEPT
                    !.countries = CounterIncr(@, country)])

\* mutant: the nested table is keyed by sector, then by country
IncrCountrySectorSwapped(md, month_key, country, sector) ==
    LET md1 == DefaultGet(md, month_key, NewMonth)
        cs1 == DefaultGet(Lookup(md1, month_key).country_sectors, sector, <<>>)
        cs2 == DictSet(cs1, sector, CounterIncr(Lookup(cs1, sector), country))
    IN  DictSet(md1, month_key,
                [Lookup(md1, month_key) EXCEPT !.country_sectors = cs2])

\* monthly_data[month_key]["country_sectors"][country][sector] += 1
IncrCountrySector(md, month_key, country, sector) ==
    LET md1 == DefaultGet(md, month_key, NewMonth)
        cs1 == DefaultGet(Lookup(md1, month_key).country_sectors, country, <<>>)
        cs2 == DictSet(cs1, country, CounterIncr(Lookup(cs1, country), sector))
    IN  DictSet(md1, month_key,
                [Lookup(md1, month_key) EXCEPT !.country_sectors = cs2])

\* the keys a record that was not dropped is counted under
SectorOf(victim) == OrDefault(Get(victim, "activity"), NotIdentified)

CountryOf(victim) == OrDefault(Get(victim, "country"), NotIdentified)

\* the four increments of one loop iteration
CountVictim(md, month_key, victim) ==
    LET sector  == SectorOf(victim)
        country == CountryOf(victim)
    IN  IncrCountrySector(
            IncrCountry(
                IncrSector(IncrTotal(md, month_key), month_key, sector),
                month_key, country),
            month_key, country, sector)

\* mutant: the month is sliced from the string, which is never parsed
ProcessVictimSliced(md, victim) ==
    LET discovered == Get(victim, "discovered")
    IN  IF ~Truthy(discovered) THEN md
        ELSE CountVictim(md, SubSeq(discovered[2], 1, 7), victim)

\* one iteration of the loop of process_victims
ProcessVictim(md, victim) ==
    LET discovered == Get(victim, "discovered")
    IN  IF ~Truthy(discovered) THEN md
        ELSE LET dt == fromisoformat(discovered[2])
             IN  IF ~dt.ok THEN md
                 ELSE CountVictim(md, strftime(dt), victim)

RECURSIVE process_victims_from(_, _)
\* the loop of process_victims run on the records vs from the state md
process_victims_from(md, vs) ==
    IF vs = <<>> THEN md
    ELSE process_victims_from(ProcessVictim(md, Head(vs)), Tail(vs))

\* process_victims(victims), run to its return
process_victims(vs) == process_victims_from(<<>>, vs)

----------------------------------------------------------------------------
(* Ranking: Counter.most_common(n) and sorted(). *)

\* Counter.most_common's n for sectors and countries, and for the sectors
\* of one country
TopN == 10

TopCountrySectors == 3

\* mutant: of the items holding the greatest count, the last one
LastMax(items) ==
    CHOOSE i \in 1..Len(items) :
        /\ \A j \in 1..Len(items) : items[j][2] <= items[i][2]
        /\ \A j \in (i + 1)..Len(items) : items[j][2] < items[i][2]

\* the position of the first item holding the greatest count
FirstMax(items) ==
    CHOOSE i \in 1..Len(items) :
        /\ \A j \in 1..Len(items) : items[j][2] <= items[i][2]
        /\ \A j \in 1..(i - 1) : items[j][2] < items[i][2]

RemoveAt(items, i) ==
    SubSeq(items, 1, i - 1) \o SubSeq(items, i + 1, Len(items))

RECURSIVE most_common(_, _)
\* Counter.most_common(n) = heapq.nlargest(n, items, key=count): the n
\* greatest counts, an item met earlier in the dict winning a tie
most_common(c, n) ==
    IF n = 0 \/ c = <<>> THEN <<>>
    ELSE <<c[FirstMax(c)]>> \o most_common(RemoveAt(c, FirstMax(c)), n - 1)

\* ord(c) for the characters of a month key
Ord(c) == IF c = "-" THEN 45 ELSE 48 + DigitVal(c)

RECURSIVE StrLess(_, _)
\* a < b on Python strs (lexicographic by code point)
StrLess(a, b) ==
    IF Len(b) = 0 THEN FALSE
    ELSE IF Len(a) = 0 THEN TRUE
    ELSE IF Char(a, 1) # Char(b, 1) THEN Ord(Char(a, 1)) < Ord(Char(b, 1))
    ELSE StrLess(SubSeq(a, 2, Len(a)), SubSeq(b, 2, Len(b)))

RECURSIVE InsertSorted(_, _)
InsertSorted(sortedKeys, k) ==
    IF sortedKeys = <<>> THEN <<k>>
    ELSE IF StrLess(k, Head(sortedKeys)) THEN <<k>> \o sortedKeys
    ELSE <<Head(sortedKeys)>> \o InsertSorted(Tail(sortedKeys), k)

RECURSIVE SortKeys(_)
SortKeys(ks) ==
    IF ks = <<>> THEN <<>>
    ELSE InsertSorted(SortKeys(SubSeq(ks, 1, Len(ks) - 1)), ks[Len(ks)])

\* sorted(d): the keys of d, ascending
sorted(d) == SortKeys(KeySeq(d))

----------------------------------------------------------------------------
(* build_json_output.  The presenters read monthly_data[month] and         *)
(* data["country_sectors"][country] through defaultdicts, so each returns  *)
(* the value it computes together with monthly_data as the reads left it.  *)

SectorItems(items) ==
    [i \in 1..Len(items) |-> [sector |-> items[i][1], count |-> items[i][2]]]

RECURSIVE JsonCountries(_, _, _)
\* the loop over top_countries: [list, data]
JsonCountries(data, top_countries, countries_list) ==
    IF top_countries = <<>>
    THEN [list |-> countries_list, data |-> data]
    ELSE LET country == top_countries[1][1]
             count   == top_countries[1][2]
             cs1     == DefaultGet(data.country_sectors, country, <<>>)
             sectors_breakdown ==
                 most_common(Lookup(cs1, country), TopCountrySectors)
         IN  JsonCountries(
                 [data EXCEPT !.country_sectors = cs1],
                 Tail(top_countries),
                 Append(countries_list,
                        [country |-> country, count |-> count,
                         top_sectors |-> SectorItems(sectors_breakdown)]))

RECURSIVE JsonMonths(_, _, _)
\* the loop over sorted(monthly_data): [output, monthly_data]
JsonMonths(md, months, out) ==
    IF months = <<>>
    THEN [output |-> out, monthly_data |-> md]
    ELSE LET month == Head(months)
             md1   == DefaultGet(md, month, NewMonth)
             data  == Lookup(md1, month)
             top_sectors   == most_common(data.sectors, TopN)
             top_countries == most_common(data.countries, TopN)
             r     == JsonCountries(data, top_countries, <<>>)
         IN  JsonMonths(
                 DictSet(md1, month, r.data),
                 Tail(months),
                 DictSet(out, month,
                         [total_victims |-> data.total,
                          top_sectors |-> SectorItems(top_sectors),
                          top_countries |-> r.list]))

build_json_output(md) == JsonMonths(md, sorted(md), <<>>)

----------------------------------------------------------------------------
(* print_monthly_summary.  One tuple per print call: the kind of line and  *)
(* the values interpolated into it (the colour codes are left out).        *)

SectorLines(kind, items) ==
    [i \in 1..Len(items) |-> <<kind, items[i][1], items[i][2]>>]

RECURSIVE TextCountries(_, _, _)
\* the loop over top_countries: [lines, data]
TextCountries(data, top_countries, lines) ==
    IF top_countries = <<>>
    THEN [lines |-> lines, data |-> data]
    ELSE LET country == top_countries[1][1]
             count   == top_countries[1][2]
             cs1     == DefaultGet(data.country_sectors, country, <<>>)
             sectors_breakdown ==
                 most_common(Lookup(cs1, country), TopCountrySectors)
         IN  TextCountries(
                 [data EXCEPT !.country_sectors = cs1],
                 Tail(top_countries),
                 lines \o <<<<"country", country, count>>>>
                       \o (IF sectors_breakdown # <<>>
                           THEN <<<<"Affected sectors:">>>>
                                \o SectorLines("affected", sectors_breakdown)
                           ELSE <<>>))

RECURSIVE TextMonths(_, _, _)
\* the loop over sorted(monthly_data): [lines, monthly_data]
TextMonths(md, months, lines) ==
    IF months = <<>>
    THEN [lines |-> lines, monthly_data |-> md]
    ELSE LET month == Head(months)
             md1   == DefaultGet(md, month, NewMonth)
             data  == Lookup(md1, month)
             top_sectors   == most_common(data.sectors, TopN)
             top_countries == most_common(data.countries, TopN)
             r     == TextCountries(data, top_countries, <<>>)
         IN  TextMonths(
                 DictSet(md1, month, r.data),
                 Tail(months),
                 lines \o <<<<"Month:", month>>, <<"Total victims:", data.total>>,
                            <<"Top sectors:">>>>
                       \o SectorLines("sector", top_sectors)
                       \o <<<<"Top countries:">>>>
                       \o r.lines
                       \o <<<<"reset">>>>)

\* mutant: the months are taken in the order of the dict
print_monthly_summary_unsorted(md) ==
    IF md = <<>>
    THEN [lines |-> <<<<"No data to display.">>>>, monthly_data |-> md]
    ELSE TextMonths(md, KeySeq(md), <<>>)

print_monthly_summary(md) ==
    IF md = <<>>
    THEN [lines |-> <<<<"No data to display.">>>>, monthly_data |-> md]
    ELSE TextMonths(md, sorted(md), <<>>)

----------------------------------------------------------------------------
(* write_csv_output: the rows it builds from the output of                 *)
(* build_json_output (the csv module's quoting of a cell is left out).     *)

RECURSIVE Join(_, _)
\* sep.join(strs)
Join(sep, strs) ==
    IF strs = <<>> THEN ""
    ELSE IF Len(strs) = 1 THEN strs[1]
    ELSE strs[1] \o sep \o Join(sep, Tail(strs))

\* f"{item['sector']}: {item['count']}"
SectorStr(item) == item.sector \o ": " \o ToString(item.count)

SectorsJoined(items) ==
    Join(", ", [i \in 1..Len(items) |-> SectorStr(items[i])])

\* f"{country} ({count}): [{sectors_detail}]"
CountryStr(country_info) ==
    country_info.country \o " (" \o ToString(country_info.count) \o "): ["
        \o SectorsJoined(country_info.top_sectors) \o "]"

CsvRow(month, summary) ==
    [Month |-> month,
     TotalVictims |-> summary.total_victims,
     TopSectors |-> SectorsJoined(summary.top_sectors),
     TopCountries |->
         Join("; ", [i \in 1..Len(summary.top_countries) |->
                         CountryStr(summary.top_countries[i])])]

\* rows, one per month of sorted(json_data)
CsvRows(json_data) ==
    LET months == sorted(json_data)
    IN  [i \in 1..Len(months) |-> CsvRow(months[i], Lookup(json_data, months[i]))]

----------------------------------------------------------------------------
(* get_victims_by_group.  A response is what requests.get produces:        *)
(*   raises  requests.get raised (no connection, ...)                      *)
(*   code    the status code                                               *)
(*   parses  response.json() returns body (otherwise it raises)            *)

\* mutant: the status code is not looked at
get_victims_by_group_any_status(resp) ==
    IF resp.raises
    THEN [victims |-> <<>>, printed |-> <<<<"An error occurred:", "ConnectionError">>>>]
    ELSE IF resp.parses
    THEN [victims |-> resp.body, printed |-> <<>>]
    ELSE [victims |-> <<>>, printed |-> <<<<"An error occurred:", "JSONDecodeError">>>>]

get_victims_by_group(resp) ==
    IF resp.raises
    THEN [victims |-> <<>>, printed |-> <<<<"An error occurred:", "ConnectionError">>>>]
    ELSE IF resp.code = 200
    THEN IF resp.parses
         THEN [victims |-> resp.body, printed |-> <<>>]
         ELSE [victims |-> <<>>, printed |-> <<<<"An error occurred:", "JSONDecodeError">>>>]
    ELSE [victims |-> <<>>, printed |-> <<<<"Error:", resp.code>>>>]

----------------------------------------------------------------------------
(* The output file.  open(..., "w") and the writes that follow either      *)
(* succeed, or open raises (the file is left as it was), or a write raises *)
(* (the file is left truncated).                                           *)

WriteOutcomes == {"ok", "open_raises", "write_raises"}

ExceptionText(outcome) ==
    IF outcome = "open_raises" THEN "PermissionError" ELSE "OSError"

NoFile == [state |-> "absent", content |-> <<>>]

FileAfter(f, content, outcome) ==
    IF outcome = "ok" THEN [state |-> "written", content |-> content]
    ELSE IF outcome = "open_raises" THEN f
    ELSE [state |-> "partial", content |-> <<>>]

CsvHeader == <<"Month", "Total Victims", "Top Sectors", "Top Countries">>

\* the lines printed after the attempt to write the JSON file
JsonSaved(path, outcome) ==
    IF outcome = "ok"
    THEN <<"JSON output successfully saved to file:", path>>
    ELSE <<"An error occurred while writing the JSON file:", ExceptionText(outcome)>>

\* mutant: the success message is printed after the try statement
CsvSavedAlways(path, outcome) == <<"CSV output successfully saved to:", path>>

\* the lines printed after the attempt to write the CSV file
CsvSaved(path, outcome) ==
    IF outcome = "ok"
    THEN <<"CSV output successfully saved to:", path>>
    ELSE <<"An error occurred while writing the CSV file:", ExceptionText(outcome)>>

----------------------------------------------------------------------------
(* main. *)

NoVictimsMessage ==
    <<"No victims found or an error occurred when querying the ransomware.live API. Is it DOWN?">>

\* lines 192-195
Fetch ==
    /\ pc = "fetch"
    /\ LET r == get_victims_by_group(response)
       IN  /\ victims' = r.victims
           /\ stdout' = stdout \o <<<<"Searching for victims for the group:">>>>
                               \o r.printed
    /\ calls' = Append(calls, "get_victims_by_group")
    /\ pc' = "check"
    /\ UNCHANGED <<format, output, response, idx, monthly_data, output_json, file>>

\* lines 196-198
NoVictims ==
    /\ pc = "check"
    /\ victims = <<>>
    /\ stdout' = Append(stdout, NoVictimsMessage)
    /\ pc' = "done"
    /\ UNCHANGED <<format, output, response, victims, idx, monthly_data,
                   output_json, file, calls>>

\* line 200 and lines 39-44: process_victims is entered
StartAggregation ==
    /\ pc = "check"
    /\ victims # <<>>
    /\ monthly_data' = <<>>
    /\ idx' = 0
    /\ calls' = Append(calls, "process_victims")
    /\ pc' = "aggregate"
    /\ UNCHANGED <<format, output, response, victims, output_json, stdout, file>>

\* lines 46-62: one iteration; after the last one process_victims returns
LoopStep ==
    /\ pc = "aggregate"
    /\ idx < Len(victims)
    /\ monthly_data' = ProcessVictim(monthly_data, victims[idx + 1])
    /\ idx' = idx + 1
    /\ pc' = IF idx + 1 = Len(victims) THEN "render" ELSE "aggregate"
    /\ UNCHANGED <<format, output, response, victims, output_json, stdout,
                   file, calls>>

\* lines 202-203
RenderNormal ==
    /\ pc = "render"
    /\ format = "normal"
    /\ LET r == print_monthly_summary(monthly_data)
       IN  /\ monthly_data' = r.monthly_data
           /\ stdout' = stdout \o r.lines
    /\ calls' = Append(calls, "print_monthly_summary")
    /\ pc' = "done"
    /\ UNCHANGED <<format, output, response, victims, idx, output_json, file>>

\* lines 204-215
RenderJson ==
    /\ pc = "render"
    /\ format = "json"
    /\ LET r == build_json_output(monthly_data)
           json_string == <<"json", r.output>>
       IN  /\ monthly_data' = r.monthly_data
           /\ output_json' = r.output
           /\ IF Truthy(output)
              THEN \E outcome \in WriteOutcomes :
                      /\ file' = FileAfter(file, json_string, outcome)
                      /\ stdout' = Append(stdout, JsonSaved(output[2], outcome))
                      /\ calls' = calls \o <<"build_json_output", "open">>
              ELSE /\ file' = file
                   /\ stdout' = Append(stdout, json_string)
                   /\ calls' = Append(calls, "build_json_output")
    /\ pc' = "done"
    /\ UNCHANGED <<format, output, response, victims, idx>>

\* lines 216-218 and write_csv_output
RenderCsv ==
    /\ pc = "render"
    /\ format = "csv"
    /\ LET r == build_json_output(monthly_data)
           text == <<"csv", CsvHeader, CsvRows(r.output)>>
       IN  /\ monthly_data' = r.monthly_data
           /\ output_json' = r.output
           /\ IF Truthy(output)
              THEN \E outcome \in WriteOutcomes :
                      /\ file' = FileAfter(file, text, outcome)
                      /\ stdout' = Append(stdout, CsvSaved(output[2], outcome))
                      /\ calls' = calls \o <<"build_json_output",
                                             "write_csv_output", "open">>
              ELSE /\ file' = file
                   /\ stdout' = Append(stdout, text)
                   /\ calls' = calls \o <<"build_json_output", "write_csv_output">>
    /\ pc' = "done"
    /\ UNCHANGED <<format, output, response, victims, idx>>

Next ==
    \/ Fetch
    \/ NoVictims
    \/ StartAggregation
    \/ LoopStep
    \/ RenderNormal
    \/ RenderJson
    \/ RenderCsv

----------------------------------------------------------------------------
(* Inputs. *)

SeqsUpTo(S, n) == UNION {[1..k -> S] : k \in 0..n}

\* the records of the general input family
Records ==
    { [discovered |-> Str("2023-01-05"), activity |-> Str("Healthcare"),
       country |-> Str("US")],
      [discovered |-> Str("2023-02-01 10:30:00"), activity |-> Str("Finance"),
       country |-> Str("DE")],
      [discovered |-> Str("2023-01-07"), activity |-> Str(""),
       country |-> Str("US")],
      [discovered |-> Str("2023-01-31T23:59:59.123456"), country |-> None],
      [activity |-> Str("Healthcare"), country |-> Str("US")],
      [discovered |-> Str(""), activity |-> Str("Finance"),
       country |-> Str("DE")],
      [discovered |-> Str("2023-02-30"), activity |-> Str("Healthcare")] }

\* the responses that carry no records to main
FailedResponses ==
    { [raises |-> TRUE,  code |-> 0,   parses |-> FALSE, body |-> <<>>],
      [raises |-> FALSE, code |-> 404, parses |-> TRUE,
       body |-> <<[discovered |-> Str("2023-01-05")]>>],
      [raises |-> FALSE, code |-> 500, parses |-> FALSE, body |-> <<>>],
      [raises |-> FALSE, code |-> 200, parses |-> FALSE, body |-> <<>>] }

OkResponses(bodies) ==
    {[raises |-> FALSE, code |-> 200, parses |-> TRUE, body |-> b] : b \in bodies}

Formats == {"normal", "json", "csv"}

\* the state main starts in, for a set of response bodies and of --output values
InitWith(bodies, outputs) ==
    /\ pc = "fetch"
    /\ format \in Formats
    /\ output \in outputs
    /\ response \in OkResponses(bodies) \cup FailedResponses
    /\ victims = <<>>
    /\ idx = 0
    /\ monthly_data = <<>>
    /\ output_json = <<>>
    /\ stdout = <<>>
    /\ file = NoFile
    /\ calls = <<>>

Init == InitWith(SeqsUpTo(Records, MaxVictims), {None, Str(""), Str("report.out")})

Spec == Init /\ [][Next]_vars

----------------------------------------------------------------------------
(* The ranking input family: n records with n distinct sectors, spread     *)
(* over nc countries and nm months, followed by repetitions of some of     *)
(* them, so that a table can hold more keys than a ranked list shows.      *)

RankRecord(i, nc, nm) ==
    [discovered |-> Str("2023-0" \o ToString(2 - ((i - 1) % nm)) \o "-15"),
     activity |-> Str("S" \o ToString(i)),
     country |-> Str("C" \o ToString(((i - 1) % nc) + 1))]

RankVictims(n, nc, nm, extra) ==
    [i \in 1..n |-> RankRecord(i, nc, nm)]
        \o [j \in 1..Len(extra) |-> RankRecord(extra[j], nc, nm)]

RankBodiesOf(n) ==
    { RankVictims(n, nc, nm, extra) :
          nc \in {2, IF n = 0 THEN 1 ELSE n}, nm \in {1, 2},
          extra \in SeqsUpTo(1..n, MaxExtra) }

RankBodies == UNION { RankBodiesOf(n) : n \in 0..MaxKeys }

InitRank == InitWith(RankBodies, {None, Str("report.out")})

SpecRank == InitRank /\ [][Next]_vars

----------------------------------------------------------------------------
(* The CSV input family: records whose names contain the separators of the *)
(* CSV cell encoding.                                                      *)

CsvRecords ==
    { [discovered |-> Str("2023-01-05"), activity |-> Str("Finance"),
       country |-> Str("US")],
      [discovered |-> Str("2023-01-06"), activity |-> Str("Finance"),
       country |-> Str("DE")],
      [discovered |-> Str("2023-01-07"), activity |-> Str("Finance"),
       country |-> Str("US (1): [Finance: 1]; DE")],
      [discovered |-> Str("2023-01-08"), activity |-> Str("Banking, Insurance"),
       country |-> Str("US")],
      [discovered |-> Str("2023-02-01"), activity |-> Str("[IT]"),
       country |-> Str("DE")] }

CsvBodies == SeqsUpTo(CsvRecords, MaxVictims)

InitCsv == InitWith(CsvBodies, {None, Str("report.out")})

SpecCsv == InitCsv /\ [][Next]_vars

----------------------------------------------------------------------------
(* Definitions the properties are stated with.  They describe a record by  *)
(* its fields alone, independently of the operators of process_victims.    *)

\* the record's discovered field is present, truthy and parses
Parses(victim) ==
    /\ "discovered" \in DOMAIN victim
    /\ victim.discovered \notin {None, Str("")}
    /\ fromisoformat(victim.discovered[2]).ok

\* ... and parses into month m
ParsesInto(victim, m) ==
    Parses(victim) /\ strftime(fromisoformat(victim.discovered[2])) = m

ExpectedSector(victim) ==
    IF "activity" \in DOMAIN victim /\ victim.activity \notin {None, Str("")}
    THEN victim.activity[2] ELSE "Not Identified"

ExpectedCountry(victim) ==
    IF "country" \in DOMAIN victim /\ victim.country \notin {None, Str("")}
    THEN victim.country[2] ELSE "Not Identified"

\* at a record boundary of the loop of process_victims, or at its return
Aggregating == pc \in {"aggregate", "render"}

\* the month each consumed record parses into ("" for a dropped record)
MonthsConsumed ==
    [j \in 1..idx |->
        IF Parses(victims[j])
        THEN strftime(fromisoformat(victims[j].discovered[2])) ELSE ""]

RECURSIVE SumValues(_)
\* sum(c.values())
SumValues(c) == IF c = <<>> THEN 0 ELSE c[1][2] + SumValues(Tail(c))

\* a dict as a function of its keys: what is left when the order is ignored
AsFunction(d) == [k \in Keys(d) |-> Lookup(d, k)]

CountsOfMonth(data) ==
    [total |-> data.total,
     sectors |-> AsFunction(data.sectors),
     countries |-> AsFunction(data.countries),
     country_sectors |->
         [c \in Keys(data.country_sectors) |->
              AsFunction(Lookup(data.country_sectors, c))]]

\* every count of an aggregation result, the order of keys ignored
Counts(md) == [m \in Keys(md) |-> CountsOfMonth(Lookup(md, m))]

PermutationsOf(n) ==
    {p \in [1..n -> 1..n] : \A i, j \in 1..n : p[i] = p[j] => i = j}

Permuted(vs, p) == [i \in 1..Len(vs) |-> vs[p[i]]]

Range(sq) == {sq[i] : i \in 1..Len(sq)}

InSeq(x, sq) == \E i \in 1..Len(sq) : sq[i] = x

Occurrences(x, sq) == Cardinality({i \in 1..Len(sq) : sq[i] = x})

----------------------------------------------------------------------------
(* C1.  At every record boundary of the loop of process_victims (and in    *)
(* every later state), for every month of the result: total is the sum of  *)
(* the sector counts and the sum of the country counts, and for every      *)
(* country c of countries the counts of country_sectors[c] sum to          *)
(* countries[c].                                                           *)

C1_TotalsAgree ==
    \A i \in 1..Len(monthly_data) :
        LET data == monthly_data[i][2]
        IN  /\ data.total = SumValues(data.sectors)
            /\ data.total = SumValues(data.countries)
            /\ \A c \in Keys(data.countries) :
                   /\ c \in Keys(data.country_sectors)
                   /\ SumValues(Lookup(data.country_sectors, c))
                          = Lookup(data.countries, c)

\* mid-loop, a month holding two sectors of one country counted twice
C1_Witness ==
    /\ pc = "aggregate"
    /\ idx = 2
    /\ \E i \in 1..Len(monthly_data) :
           /\ monthly_data[i][2].total = 2
           /\ Len(monthly_data[i][2].sectors) = 2
           /\ Len(monthly_data[i][2].countries) = 1

(* C2.  A record whose discovered field is missing, falsy or unparsable    *)
(* changes no count: each month's total is the number of consumed records  *)
(* whose discovered parses into that month, and a month is a key of the    *)
(* result only if a record parsed into it (and then it is a key).          *)

C2_DroppedRecordsCountNowhere ==
    Aggregating =>
        LET months == MonthsConsumed
        IN  /\ \A i \in 1..Len(monthly_data) :
                   /\ monthly_data[i][1] # ""
                   /\ monthly_data[i][2].total >= 1
                   /\ monthly_data[i][2].total
                          = Cardinality({j \in 1..idx :
                                            months[j] = monthly_data[i][1]})
            /\ \A j \in 1..idx :
                   months[j] # "" => months[j] \in Keys(monthly_data)
            /\ \A j \in 1..idx :
                   (\/ "discovered" \notin DOMAIN victims[j]
                    \/ victims[j].discovered \in {None, Str(""), Str("2023-02-30")})
                       => months[j] = ""

\* a record without discovered, an unparsable one (30 February) and a
\* parsable one of the same month were consumed: the month's total is 1
C2_Witness ==
    /\ pc = "render"
    /\ idx = 3
    /\ "discovered" \notin DOMAIN victims[1]
    /\ Get(victims[2], "discovered") = Str("2023-02-30")
    /\ Get(victims[3], "discovered") = Str("2023-02-01 10:30:00")
    /\ Keys(monthly_data) = {"2023-02"}
    /\ monthly_data[1][2].total = 1

(* C3.  process_victims is commutative over records: run on any            *)
(* permutation of the record sequence it yields the same months and, per   *)
(* month, the same total and the same count of every sector, country and   *)
(* (country, sector) pair; only the order of keys may differ.              *)

C3_Commutative ==
    pc = "render" =>
        \A p \in PermutationsOf(Len(victims)) :
            Counts(process_victims(Permuted(victims, p))) = Counts(monthly_data)

\* a permutation changes the first-seen order of the keys, and nothing else
C3_Witness ==
    /\ pc = "render"
    /\ Len(monthly_data) = 2
    /\ \E p \in PermutationsOf(Len(victims)) :
           /\ process_victims(Permuted(victims, p)) # monthly_data
           /\ KeySeq(process_victims(Permuted(victims, p))) # KeySeq(monthly_data)

(* C4.  A fetch that ends with a non-200 status or an exception returns an *)
(* empty sequence; whenever the fetched sequence is empty main prints the  *)
(* message and returns having invoked neither process_victims nor a        *)
(* presenter and having written no file; whenever it is non-empty the run  *)
(* goes on to process_victims and then to a presenter.                     *)

Presenters == {"print_monthly_summary", "build_json_output"}

\* the guard of some action of main holds
CanStep ==
    \/ pc \in {"fetch", "check"}
    \/ pc = "aggregate" /\ idx < Len(victims)
    \/ pc = "render" /\ format \in Formats

C4_EmptyFetchShortCircuits ==
    /\ (pc # "fetch" /\ (response.raises \/ response.code # 200 \/ ~response.parses))
           => victims = <<>>
    /\ (pc # "fetch" /\ victims = <<>>) =>
           /\ calls = <<"get_victims_by_group">>
           /\ file = NoFile
           /\ output_json = <<>> /\ monthly_data = <<>>
           /\ pc \in {"check", "done"}
           /\ pc = "done" => stdout[Len(stdout)] = NoVictimsMessage
    /\ (pc = "done" /\ victims # <<>>) =>
           /\ Len(calls) >= 3
           /\ calls[2] = "process_victims"
           /\ calls[3] \in Presenters
           /\ ~InSeq(NoVictimsMessage, stdout)
    /\ pc # "done" => CanStep

\* a 404 whose body holds a record: the run has ended with the message
C4_Witness ==
    /\ pc = "done"
    /\ response.code = 404
    /\ response.body # <<>>
    /\ InSeq(<<"Error:", 404>>, stdout)
    /\ stdout[Len(stdout)] = NoVictimsMessage

(* C9.  For every record that is not dropped, the sector key incremented   *)
(* is the record's activity when that field is present and truthy and      *)
(* "Not Identified" otherwise, and likewise for country; the same values   *)
(* are used for sectors, countries and country_sectors.                    *)

C9_NotIdentifiedSubstituted ==
    Aggregating =>
        LET months == MonthsConsumed
            esec   == [j \in 1..idx |-> ExpectedSector(victims[j])]
            ectr   == [j \in 1..idx |-> ExpectedCountry(victims[j])]
        IN  \A i \in 1..Len(monthly_data) :
                LET data == monthly_data[i][2]
                    cons == {j \in 1..idx : months[j] = monthly_data[i][1]}
                    secs == {esec[j] : j \in cons}
                    ctrs == {ectr[j] : j \in cons}
                IN  /\ Keys(data.sectors) = secs
                    /\ Keys(data.countries) = ctrs
                    /\ Keys(data.country_sectors) = ctrs
                    /\ \A s \in secs :
                           Lookup(data.sectors, s)
                               = Cardinality({j \in cons : esec[j] = s})
                    /\ \A c \in ctrs :
                           /\ Lookup(data.countries, c)
                                  = Cardinality({j \in cons : ectr[j] = c})
                           /\ \A s \in secs \cup Keys(Lookup(data.country_sectors, c)) :
                                  CounterGet(Lookup(data.country_sectors, c), s)
                                      = Cardinality({j \in cons :
                                                        ectr[j] = c /\ esec[j] = s})

\* a record with an empty activity and one without activity, of one month,
\* are both counted under "Not Identified"
C9_Witness ==
    /\ pc = "render"
    /\ \E j, k \in 1..Len(victims) :
           /\ "activity" \in DOMAIN victims[j] /\ victims[j].activity = Str("")
           /\ "activity" \notin DOMAIN victims[k]
           /\ ParsesInto(victims[j], "2023-01") /\ ParsesInto(victims[k], "2023-01")
    /\ CounterGet(Lookup(monthly_data, "2023-01").sectors, "Not Identified") = 2
    /\ "" \notin Keys(Lookup(monthly_data, "2023-01").sectors)

(* C10.  With --format json or csv and --output given, when opening or     *)
(* writing the file raises, the exception is reported with its text, the   *)
(* success message is not printed, main still returns, and the write is    *)
(* attempted once.                                                         *)

WriteFailed == InSeq("open", calls) /\ file.state # "written"

SuccessMessages ==
    {<<"JSON output successfully saved to file:", output[2]>>,
     <<"CSV output successfully saved to:", output[2]>>}

C10_WriteFailureReported ==
    /\ InSeq("open", calls) =>
           /\ pc = "done"
           /\ format \in {"json", "csv"} /\ Truthy(output)
           /\ Occurrences("open", calls) = 1
    /\ WriteFailed =>
           /\ stdout[Len(stdout)] \in
                  {<<(IF format = "json"
                      THEN "An error occurred while writing the JSON file:"
                      ELSE "An error occurred while writing the CSV file:"),
                     text>> : text \in {"PermissionError", "OSError"}}
           /\ \A i \in 1..Len(stdout) : stdout[i] \notin SuccessMessages
    /\ (InSeq("open", calls) /\ file.state = "written") =>
           stdout[Len(stdout)] \in SuccessMessages

\* a write of the CSV file raised after the file was opened
C10_Witness ==
    /\ pc = "done"
    /\ format = "csv"
    /\ WriteFailed
    /\ file.state = "partial"

----------------------------------------------------------------------------
(* C5.  Each ranked list of build_json_output is the first N entries of    *)
(* the stable descending-by-count sort of its frequency table taken in     *)
(* first-seen key order (N = 10 for top_sectors and top_countries, N = 3   *)
(* for the top_sectors of a top country): counts do not increase, no       *)
(* omitted entry has a higher count than a listed one, and entries of      *)
(* equal count keep the order in which their keys were first met while     *)
(* the records were scanned.                                               *)

Min(a, b) == IF a <= b THEN a ELSE b

FirstN(sq, n) == SubSeq(sq, 1, Min(n, Len(sq)))

RECURSIVE InsertByCount(_, _)
\* item placed after every entry whose count is not smaller
InsertByCount(ranked, item) ==
    IF ranked = <<>> THEN <<item>>
    ELSE IF Head(ranked)[2] >= item[2]
    THEN <<Head(ranked)>> \o InsertByCount(Tail(ranked), item)
    ELSE <<item>> \o ranked

RECURSIVE StableSortDesc(_)
\* insertion sort, descending by count, stable
StableSortDesc(items) ==
    IF items = <<>> THEN <<>>
    ELSE InsertByCount(StableSortDesc(SubSeq(items, 1, Len(items) - 1)),
                       items[Len(items)])

\* list ranks the table: its length, order and tie-breaks
Ranked(list, table, n) ==
    /\ Len(list) = Min(n, Len(table))
    /\ \A i \in 1..Len(list) : InSeq(list[i], table)
    /\ \A i, j \in 1..Len(list) :
           i < j => /\ list[i][1] # list[j][1]
                    /\ list[i][2] >= list[j][2]
                    /\ list[i][2] = list[j][2]
                           => IndexOf(table, list[i][1]) < IndexOf(table, list[j][1])
    /\ \A e \in 1..Len(table) :
           ~InSeq(table[e], list) =>
               \A i \in 1..Len(list) :
                   /\ table[e][2] <= list[i][2]
                   /\ table[e][2] = list[i][2] => IndexOf(table, list[i][1]) < e

RECURSIVE FirstSeen(_)
\* the distinct elements of a sequence, in the order of their first occurrence
FirstSeen(sq) ==
    IF sq = <<>> THEN <<>>
    ELSE IF InSeq(sq[Len(sq)], SubSeq(sq, 1, Len(sq) - 1))
    THEN FirstSeen(SubSeq(sq, 1, Len(sq) - 1))
    ELSE Append(FirstSeen(SubSeq(sq, 1, Len(sq) - 1)), sq[Len(sq)])

\* the records of month m, in the order they were scanned
RecordsOf(m) == SelectSeq(victims, LAMBDA v : ParsesInto(v, m))

SectorsOf(rs) == [i \in 1..Len(rs) |-> ExpectedSector(rs[i])]

CountriesOf(rs) == [i \in 1..Len(rs) |-> ExpectedCountry(rs[i])]

SectorPairs(items) == [i \in 1..Len(items) |-> <<items[i].sector, items[i].count>>]

CountryPairs(items) == [i \in 1..Len(items) |-> <<items[i].country, items[i].count>>]

\* the table is in first-seen order and list is its ranking of length n
RanksFirstSeen(list, table, n, firstSeen) ==
    /\ KeySeq(table) = firstSeen
    /\ list = FirstN(StableSortDesc(table), n)
    /\ Ranked(list, table, n)

C5_RankedLists ==
    (pc = "done" /\ format \in {"json", "csv"}) =>
        /\ KeySeq(output_json) = sorted(monthly_data)
        /\ \A i \in 1..Len(output_json) :
               LET month   == output_json[i][1]
                   summary == output_json[i][2]
                   data    == Lookup(monthly_data, month)
                   rs      == RecordsOf(month)
               IN  /\ RanksFirstSeen(SectorPairs(summary.top_sectors),
                                     data.sectors, 10,
                                     FirstSeen(SectorsOf(rs)))
                   /\ RanksFirstSeen(CountryPairs(summary.top_countries),
                                     data.countries, 10,
                                     FirstSeen(CountriesOf(rs)))
                   /\ \A k \in 1..Len(summary.top_countries) :
                          LET c == summary.top_countries[k].country
                          IN  RanksFirstSeen(
                                  SectorPairs(summary.top_countries[k].top_sectors),
                                  Lookup(data.country_sectors, c), 3,
                                  FirstSeen(SectorsOf(
                                      SelectSeq(rs, LAMBDA v : ExpectedCountry(v) = c))))

\* eleven sectors, the one counted twice listed first and one of the ten
\* counted once left out; a country of more than three sectors
C5_Witness ==
    /\ pc = "done"
    /\ format = "json"
    /\ \E i \in 1..Len(output_json) :
           LET summary == output_json[i][2]
               data    == Lookup(monthly_data, output_json[i][1])
           IN  /\ Len(data.sectors) = 11
               /\ Len(summary.top_sectors) = 10
               /\ summary.top_sectors[1].count = 2
               /\ summary.top_sectors[1].sector # data.sectors[1][1]
               /\ summary.top_sectors[10].count = 1
               /\ \E k \in 1..Len(summary.top_countries) :
                      /\ Len(summary.top_countries[k].top_sectors) = 3
                      /\ Len(Lookup(data.country_sectors,
                                    summary.top_countries[k].country)) > 3

(* C7.  print_monthly_summary prints the shaped result that                *)
(* build_json_output returns: for a non-empty aggregation result the       *)
(* months in ascending order and, per month, the total, the top sectors,   *)
(* the top countries and each top country's top three sectors, all in the  *)
(* same order.                                                             *)

RECURSIVE Concat(_)
Concat(sqs) == IF sqs = <<>> THEN <<>> ELSE Head(sqs) \o Concat(Tail(sqs))

\* the lines that present one entry of top_countries
CountryText(info) ==
    <<<<"country", info.country, info.count>>>>
        \o (IF info.top_sectors # <<>>
            THEN <<<<"Affected sectors:">>>>
                 \o [k \in 1..Len(info.top_sectors) |->
                        <<"affected", info.top_sectors[k].sector,
                          info.top_sectors[k].count>>]
            ELSE <<>>)

\* the lines that present one month of the shaped result
MonthText(month, summary) ==
    <<<<"Month:", month>>, <<"Total victims:", summary.total_victims>>,
      <<"Top sectors:">>>>
        \o [k \in 1..Len(summary.top_sectors) |->
               <<"sector", summary.top_sectors[k].sector,
                 summary.top_sectors[k].count>>]
        \o <<<<"Top countries:">>>>
        \o Concat([k \in 1..Len(summary.top_countries) |->
                      CountryText(summary.top_countries[k])])
        \o <<<<"reset">>>>

ShapedText(json) ==
    Concat([i \in 1..Len(json) |-> MonthText(json[i][1], json[i][2])])

C7_TextShowsShapedResult ==
    (pc = "done" /\ format = "normal" /\ monthly_data # <<>>) =>
        /\ SubSeq(stdout, 2, Len(stdout))
               = ShapedText(build_json_output(monthly_data).output)
        /\ KeySeq(build_json_output(monthly_data).output)
               \in {<<"2023-01">>, <<"2023-02">>, <<"2023-01", "2023-02">>}

\* two months met in descending order, a country of more than three sectors
C7_Witness ==
    /\ pc = "done"
    /\ format = "normal"
    /\ KeySeq(monthly_data) = <<"2023-02", "2023-01">>
    /\ stdout[2] = <<"Month:", "2023-01">>
    /\ \E c \in 1..Len(monthly_data[1][2].country_sectors) :
           Len(monthly_data[1][2].country_sectors[c][2]) > 3
    /\ Occurrences(<<"Affected sectors:">>, stdout) = 2

(* C8.  The aggregation result is not mutated once process_victims has     *)
(* returned: the presenters leave monthly_data as it is, their reads of    *)
(* monthly_data[month] and country_sectors[country] insert no key.         *)

C8_PresentersLeaveAggregation ==
    [][pc = "render" => monthly_data' = monthly_data]_vars

\* a presenter has read country_sectors for the countries of two months
C8_Witness ==
    /\ pc = "done"
    /\ format = "csv"
    /\ Len(monthly_data) = 2
    /\ Len(output_json) = 2
    /\ Len(output_json[1][2].top_countries) = 2
    /\ Keys(output_json) = Keys(monthly_data)

----------------------------------------------------------------------------
(* C6.  Parsing the Top Countries cell of a CSV row reconstructs, per      *)
(* country, the ordered (sector, count) list of top_countries[].top_sectors *)
(* of that month, also when names contain ", ", ": ", "; ", " (", "[" or   *)
(* "]".  Whatever the parser, its result is a function of the cell, so the *)
(* claim needs the cell to determine the breakdown: no two shaped months   *)
(* with different breakdowns may be written as the same cell.              *)

\* the rows write_csv_output wrote, to the file or to the terminal
CsvWritten ==
    IF file.state = "written" THEN file.content[3] ELSE stdout[Len(stdout)][3]

\* per country, the ordered (sector, count) list of one shaped month
Breakdown(summary) ==
    [k \in 1..Len(summary.top_countries) |->
        <<summary.top_countries[k].country,
          SectorPairs(summary.top_countries[k].top_sectors)>>]

\* the shaped months of every record sequence of the CSV input family
ShapedMonths ==
    UNION { { e[2] : e \in Range(build_json_output(process_victims(vs)).output) } :
            vs \in CsvBodies }

C6_CsvCellDeterminesBreakdown ==
    (pc = "done" /\ format = "csv" /\ InSeq("write_csv_output", calls)
         /\ ~WriteFailed) =>
        \A i \in 1..Len(CsvWritten) :
            \A other \in ShapedMonths :
                CsvRow("", other).TopCountries = CsvWritten[i].TopCountries
                    => Breakdown(other) = Breakdown(output_json[i][2])

====
